---- MODULE Spec2Model ----
(***************************************************************************)
(* A model of sp.py: synthesis of a delayed bi-exponential detector pulse, *)
(* uniform integer noise, a baseline offset, two energy extractors (plain  *)
(* windowed sum and baseline-subtracted windowed sum, both quantized by a  *)
(* right shift) and the two histograms the script fills in its two loops.  *)
(***************************************************************************)
EXTENDS Integers, Sequences, FiniteSets

(***************************************************************************)
(* Real arithmetic.  The script evaluates the pulse in float64 and         *)
(* truncates once (astype(int)).  The model evaluates the same expression  *)
(* in fixed point with FixOne units per 1.0; products are formed digit by  *)
(* digit so that no intermediate value leaves the 32-bit integers.         *)
(***************************************************************************)
FixOne == 2^28

Abs(v) == IF v < 0 THEN -v ELSE v

\* <<floor(a*b/c), (a*b) mod c>> for 0 <= a < c, 0 <= b, 0 < c <= 3 * 10^8,
\* by long multiplication over the base-4 digits of b.
RECURSIVE MulDivQR(_, _, _)
MulDivQR(a, b, c) ==
  IF b = 0 THEN <<0, 0>>
  ELSE LET h  == MulDivQR(a, b \div 4, c)
           r4 == 4 * h[2] + (b % 4) * a
       IN  <<4 * h[1] + (r4 \div c), r4 % c>>

\* <<floor(a*b/c), (a*b) mod c>> for any a >= 0.
MulDiv(a, b, c) ==
  IF a < c THEN MulDivQR(a, b, c)
  ELSE LET qr == MulDivQR(a % c, b, c)
       IN  <<(a \div c) * b + qr[1], qr[2]>>

\* a*b/c rounded to the nearest integer.
MulDivRound(a, b, c) ==
  LET qr == MulDiv(a, b, c)
  IN  IF 2 * qr[2] >= c THEN qr[1] + 1 ELSE qr[1]

\* The product of two fixed-point numbers in [0, 1].
FixMul(a, b) == MulDivRound(a, b, FixOne)

\* term_k - term_(k+1) + term_(k+2) - ..., term_(m+1) = term_m * f / (tau*(m+1)):
\* the alternating Taylor series of exp(-f/tau) from its k-th term on.
RECURSIVE ExpSeries(_, _, _, _)
ExpSeries(term, k, f, tau) ==
  IF term = 0 THEN 0
  ELSE term - ExpSeries(MulDivRound(term, f, tau * (k + 1)), k + 1, f, tau)

\* exp(-f/tau) for 0 <= f <= tau.
ExpFrac(f, tau) == ExpSeries(FixOne, 0, f, tau)

\* exp(-k) for an integer k >= 0; below one unit from k = 20 on.
RECURSIVE ExpInt(_)
ExpInt(k) ==
  IF k = 0 THEN FixOne
  ELSE IF k = 1 THEN ExpFrac(1, 1)
  ELSE IF k >= 20 THEN 0
  ELSE FixMul(ExpInt(k \div 2), ExpInt(k - (k \div 2)))

\* np.exp(-n / tau) for a sample index n >= 0 and a time constant tau > 0.
ExpNeg(n, tau) == FixMul(ExpInt(n \div tau), ExpFrac(n % tau, tau))

\* trunc((P/Q) * (d/FixOne)) for P >= 0, Q > 0 and a fixed-point d >= 0: the
\* integer part of the product, exact for the given d.
ScaleTrunc(P, Q, d) ==
  LET whole == MulDiv(d, P \div Q, FixOne)
      part  == MulDiv(d, P % Q, Q)
  IN  whole[1] + ((whole[2] + part[1]) \div FixOne)

(***************************************************************************)
(* Python indexing.                                                        *)
(***************************************************************************)
Max(a, b) == IF a >= b THEN a ELSE b
Min(a, b) == IF a <= b THEN a ELSE b

\* A slice bound as Python resolves it for a sequence of n elements: a
\* negative bound counts from the end, and the result is clamped to [0, n].
SliceBound(n, b) == IF b < 0 THEN Max(b + n, 0) ELSE Min(b, n)

\* The indices x[lo:hi] selects from an array of n elements.
SliceIdx(n, lo, hi) == SliceBound(n, lo) .. (SliceBound(n, hi) - 1)

\* np.sum of the elements f[lo], ..., f[hi-1].
RECURSIVE SumRange(_, _, _)
SumRange(f, lo, hi) ==
  IF lo >= hi THEN 0
  ELSE IF hi = lo + 1 THEN f[lo]
  ELSE SumRange(f, lo, (lo + hi) \div 2) + SumRange(f, (lo + hi) \div 2, hi)

\* np.sum(x[lo:hi]) for an array of n elements held in f.
SliceSum(f, n, lo, hi) == SumRange(f, SliceBound(n, lo), SliceBound(n, hi))

\* int(q) for a rational q = <<num, den>>, den > 0: truncation toward zero.
IntPart(q) == IF q[1] >= 0 THEN q[1] \div q[2] ELSE -((-q[1]) \div q[2])

(***************************************************************************)
(* pulse_model and pulse (lines 9-40).  height is a rational <<num, den>>  *)
(* with den > 0; tau1 and tau2 are positive integers.                      *)
(***************************************************************************)
\* len(i[:i.size - start]): the number of samples the exponentials cover.
PulseBodyLen(size, start) == SliceBound(size, size - start)

\* The length of np.append(leading_zeros, pulse_signal).
PulseLen(size, start) == start + PulseBodyLen(size, start)

\* One element of pulse_signal after astype(int): the waveform j samples
\* after the pulse start, truncated toward zero.
PulseSignal(j, tau1, tau2, height) ==
  LET d    == ExpNeg(j, tau1) - ExpNeg(j, tau2)
      P    == tau1 * height[1]
      Q    == (tau1 - tau2) * height[2]
      sign == (IF P < 0 THEN -1 ELSE 1) * (IF Q < 0 THEN -1 ELSE 1)
                * (IF d < 0 THEN -1 ELSE 1)
  IN  sign * ScaleTrunc(Abs(P), Abs(Q), Abs(d))

\* A pulse model that leaves the delay out of the exponentials.
PulseModelUndelayed(k, tau1, tau2, height, start) ==
  IF k < start THEN 0 ELSE PulseSignal(k, tau1, tau2, height)

\* Element k of pulse_model(i, tau1, tau2, height, start) for i = 0..size-1,
\* as an integer: `start` leading zeros, then the waveform from its own 0.
pulse_model(k, tau1, tau2, height, start) ==
  IF k < start THEN 0 ELSE PulseSignal(k - start, tau1, tau2, height)

\* pulse(length, start, height, tau1, tau2) on the indices idx: the error it
\* raises (tau1 / (tau1 - tau2) with tau1 = tau2), the size of the array it
\* returns and the array's elements at idx.
PulseOn(idx, length, start, height, tau1, tau2) ==
  IF tau1 = tau2
  THEN [err |-> "ZeroDivisionError", size |-> 0, at |-> <<>>]
  ELSE [err  |-> "none",
        size |-> PulseLen(length, start),
        at   |-> [k \in idx \cap (0 .. (PulseLen(length, start) - 1)) |->
                    pulse_model(k, tau1, tau2, height, start)]]

\* The whole array.
pulse(length, start, height, tau1, tau2) ==
  PulseOn(0 .. (PulseLen(length, start) - 1), length, start, height, tau1, tau2)

(***************************************************************************)
(* noise (lines 64-70): np.random.randint(-1*amplitude, amplitude,         *)
(* (length,)).  randint converts both bounds with int(); an empty shape    *)
(* returns an empty array before the bounds are looked at, and otherwise   *)
(* low >= high raises ValueError.  The result names the values each        *)
(* element is drawn from.                                                  *)
(***************************************************************************)
RandLow(amplitude)  == IntPart(<<-amplitude[1], amplitude[2]>>)
RandHigh(amplitude) == IntPart(amplitude)

noise(length, amplitude) ==
  IF length = 0
  THEN [err |-> "none", size |-> 0, values |-> {}]
  ELSE IF RandLow(amplitude) >= RandHigh(amplitude)
  THEN [err |-> "ValueError", size |-> 0, values |-> {}]
  ELSE [err    |-> "none",
        size   |-> length,
        values |-> RandLow(amplitude) .. (RandHigh(amplitude) - 1)]

\* Every array noise(length, amplitude) can return.
NoiseArrays(length, amplitude) ==
  [0 .. (noise(length, amplitude).size - 1) -> noise(length, amplitude).values]

(***************************************************************************)
(* Energy extraction (lines 91, 103, 113) and the histogram update         *)
(* (lines 104, 114).                                                       *)
(***************************************************************************)
\* v >> n on a two's-complement integer: each step drops the lowest bit.
\* A shift that rounds toward zero, as a division by 2^n in C would.
ShiftTowardZero(v, n) ==
  IF v < 0 THEN -((-v) \div (2 ^ n)) ELSE v \div (2 ^ n)

RECURSIVE ShiftRight(_, _)
ShiftRight(v, n) ==
  IF n = 0 THEN v ELSE ShiftRight((v - (v % 2)) \div 2, n - 1)

\* np.sum(x[start_index:end_index]) >> shift
PlainEnergy(S, shift) == ShiftRight(S, shift)

\* A subtracted energy that takes the pulse window from the baseline window.
SubtractedEnergySwapped(S1, S2, shift) == ShiftRight(S2 - S1, shift)

\* np.sum(x[a:b]) - np.sum(x[a-lag:b-lag]) >> shift: Python's >> binds
\* looser than -, so the whole difference is shifted.
SubtractedEnergy(S1, S2, shift) == ShiftRight(S1 - S2, shift)

\* The element h[i] names in an array of n elements: a negative index counts
\* from the end.
IndexOf(n, i) == IF i < 0 THEN i + n ELSE i

\* Whether h[i] raises IndexError.
IndexError(n, i) == IndexOf(n, i) < 0 \/ IndexOf(n, i) >= n

\* h[i] = 1 in place of h[i] += 1.
RecordAssign(h, n, i) == [h EXCEPT ![IndexOf(n, i) + 1] = 1]

\* h[:i + 1] += 1 in place of h[i] += 1: every bin up to bin i is counted.
RecordUpTo(h, n, i) ==
  [b \in 1 .. Len(h) |-> IF b <= IndexOf(n, i) + 1 THEN h[b] + 1 ELSE h[b]]

\* h[i] += 1 on an array of n elements; element k of the array is h[k + 1].
Record(h, n, i) == [h EXCEPT ![IndexOf(n, i) + 1] = @ + 1]

\* np.zeros(n)
Zeros(n) == [k \in 1 .. n |-> 0]

(***************************************************************************)
(* The script's parameters.  RefConfig holds the values of sp.py; height   *)
(* is 1.332*200*mvbin and the noise amplitude nlev*mvbin with              *)
(* mvbin = 1.0/0.122, both kept as rationals <<num, den>>.                 *)
(***************************************************************************)
RefConfig ==
  [tlen        |-> 100000,
   ppos        |-> 50000,
   height      |-> <<1332 * 200, 122>>,
   dtau        |-> 5000,
   rtau        |-> 2,
   amplitude   |-> <<2 * 1000, 122>>,
   baseline    |-> 8192,
   start_index |-> 50032,
   end_index   |-> 50096,
   lag         |-> 1000,
   shift       |-> 6,
   bins        |-> 16384,
   trials      |-> 300]

\* The trial count and the histogram size of the scaled-down runs.
SmallTrials == 3
SmallBins == 32

\* A scaled-down configuration: 10 samples, the pulse from sample 4 on, a
\* window of two samples just after the pulse start and the baseline window
\* four samples earlier.
SmallConfig ==
  [tlen        |-> 10,
   ppos        |-> 4,
   height      |-> <<20, 1>>,
   dtau        |-> 4,
   rtau        |-> 1,
   amplitude   |-> <<3, 2>>,
   baseline    |-> 8,
   start_index |-> 5,
   end_index   |-> 7,
   lag         |-> 4,
   shift       |-> 1,
   bins        |-> SmallBins,
   trials      |-> SmallTrials]

\* The configurations of the scaled-down runs: the valid one; valid ones
\* whose energies leave the histogram (a pulse after the window makes the
\* subtracted sum negative, a 19-bin histogram is too short for the plain
\* sum); and invalid ones.
SmallConfigs ==
  { SmallConfig,
    [SmallConfig EXCEPT !.ppos = 8],
    [SmallConfig EXCEPT !.bins = 19],
    [SmallConfig EXCEPT !.rtau = 4],
    [SmallConfig EXCEPT !.ppos = 12],
    [SmallConfig EXCEPT !.start_index = 7, !.end_index = 5],
    [SmallConfig EXCEPT !.start_index = 9, !.end_index = 12],
    [SmallConfig EXCEPT !.lag = 6],
    [SmallConfig EXCEPT !.amplitude = <<1, 2>>] }

\* The loops and histograms of sp.py (300 passes, 16384 bins, baseline 8192,
\* shift 6) on the short signal, with windows of one sample.
LongConfig ==
  [SmallConfig EXCEPT !.baseline = RefConfig.baseline,
                      !.shift    = RefConfig.shift,
                      !.bins     = RefConfig.bins,
                      !.trials   = RefConfig.trials,
                      !.end_index = 6]

(***************************************************************************)
(* The state of a run of the script.                                       *)
(***************************************************************************)
VARIABLES
  pc,      \* the statement the script is at
  cfg,     \* the parameters of the run
  x,       \* the signal array: [id, size, at]
  i,       \* the variable i: the loop variable and the energy
  it,      \* the position of the running loop's range iterator
  h1,      \* the plain-sum histogram
  h2,      \* the subtracted-sum histogram
  err,     \* the exception that ended the run, or "none"
  nsynth,  \* how many signal arrays have been synthesized
  used1,   \* the ids of the signals recorded into h1
  used2,   \* the ids of the signals recorded into h2
  rec1,    \* the energies recorded into h1, with multiplicity
  rec2,    \* the energies recorded into h2, with multiplicity
  fin,     \* the arguments of a function under study
  fout     \* its result

vars == <<pc, cfg, x, i, it, h1, h2, err, nsynth, used1, used2, rec1, rec2,
          fin, fout>>

Unset == [id |-> 0, size |-> 0, at |-> <<>>]

\* The indices the two extraction slices read from an array of n elements;
\* x.at holds these samples.
Watched(c, n) ==
  SliceIdx(n, c.start_index, c.end_index)
    \cup SliceIdx(n, c.start_index - c.lag, c.end_index - c.lag)

\* The arrays np.random.randint can return, on the indices idx: every
\* element is any of `values`, independently of the others.
NoiseDraws(idx, values) == [idx -> values]

\* The sums a slice of n elements of such an array can have.
NoiseSums(n, values) ==
  IF n = 0 THEN {0}
  ELSE LET lo == CHOOSE v \in values : \A w \in values : v <= w
           hi == CHOOSE v \in values : \A w \in values : v >= w
       IN  (n * lo) .. (n * hi)

\* The differences between the sums of two slices of n1 and n2 elements that
\* share no element.
NoiseDiffs(n1, n2, values) ==
  LET lo == CHOOSE v \in values : \A w \in values : v <= w
      hi == CHOOSE v \in values : \A w \in values : v >= w
  IN  (n1 * lo - n2 * hi) .. (n1 * hi - n2 * lo)

\* The multiset rec with one more occurrence of e.
BagAdd(rec, e) ==
  IF e \in DOMAIN rec THEN [rec EXCEPT ![e] = @ + 1]
  ELSE [v \in DOMAIN rec \cup {e} |-> IF v = e THEN 1 ELSE rec[v]]

(***************************************************************************)
(* Signal synthesis.                                                       *)
(***************************************************************************)
\* pulse(tlen, ppos, 1.332*200*mvbin, dtau, rtau) on the watched samples.
ConfigPulse(c) ==
  PulseOn(Watched(c, PulseLen(c.tlen, c.ppos)),
          c.tlen, c.ppos, c.height, c.dtau, c.rtau)

\* Every configuration a specification starts from.
AllConfigs == SmallConfigs \cup {LongConfig, RefConfig}

\* np.zeros(n) is the same array in every call: it is evaluated once for
\* each histogram size.
ZerosTable == [n \in {c.bins : c \in AllConfigs} |-> Zeros(n)]

\* The pulse is the same array in every call of a run: it is evaluated once
\* for each configuration.
PulseTable == [c \in AllConfigs |-> ConfigPulse(c)]

\* A pass that keeps the signal it finds and synthesizes none.
SynthesizeNone(c, prev, fresh, p, n) == prev

\* pulse(...) + noise(...) + 8192 (lines 102, 112): a new array, the element
\* sum of the pulse p, the noise realization n and the baseline.
Synthesize(c, prev, fresh, p, n) ==
  [id   |-> fresh,
   size |-> p.size,
   at   |-> [k \in DOMAIN p.at |-> p.at[k] + n[k] + c.baseline]]

\* A loop that tests its variable, as `while i < n` would.
ForHasNextFromVar(pos, var, n) == var < n

\* for i in range(n): whether the iterator at position pos yields a value
\* (i is the loop variable, which the body reassigns).
ForHasNext(pos, var, n) == pos < n

\* np.sum(x[start_index:end_index])
WindowSum(c, sig) ==
  SliceSum(sig.at, sig.size, c.start_index, c.end_index)

\* np.sum(x[start_index-1000:end_index-1000])
LagSum(c, sig) ==
  SliceSum(sig.at, sig.size, c.start_index - c.lag, c.end_index - c.lag)

(***************************************************************************)
(* The script, statement by statement.                                     *)
(***************************************************************************)
Halt(e) == pc' = "error" /\ err' = e

\* The number of empty plots the script creates (line 55).
Plots == 8

\* for i in range(n): the value the loop leaves in its variable, which is
\* `var` when the loop has no pass.
ForLast(n, var) == IF n > 0 THEN n - 1 ELSE var

\* line 50: x = pulse(tlen, ppos, 1.332*200*mvbin, dtau, rtau), and the loop
\* of lines 55-57 over the empty plots, which leaves i = 7.
GenSignal ==
  /\ pc = "line50"
  /\ LET p == PulseTable[cfg]
     IN  IF p.err # "none"
         THEN Halt(p.err) /\ UNCHANGED <<x, nsynth, i>>
         ELSE /\ x' = [id |-> nsynth + 1, size |-> p.size, at |-> p.at]
              /\ nsynth' = nsynth + 1
              /\ i' = ForLast(Plots, i)
              /\ pc' = "line73"
              /\ err' = err
  /\ UNCHANGED <<cfg, it, h1, h2, used1, used2, rec1, rec2, fin, fout>>

\* line 73: x += noise(x.size, nlev*mvbin)
AddNoise ==
  /\ pc = "line73"
  /\ LET nz == noise(x.size, cfg.amplitude)
     IN  IF nz.err # "none"
         THEN Halt(nz.err) /\ x' = x
         ELSE /\ \E n \in NoiseDraws(DOMAIN x.at, nz.values) :
                   x' = [x EXCEPT !.at = [k \in DOMAIN x.at |-> x.at[k] + n[k]]]
              /\ pc' = "line79"
              /\ err' = err
  /\ UNCHANGED <<cfg, i, it, h1, h2, nsynth, used1, used2, rec1, rec2, fin, fout>>

\* line 79: x += 8192
AddBaseline ==
  /\ pc = "line79"
  /\ x' = [x EXCEPT !.at = [k \in DOMAIN x.at |-> x.at[k] + cfg.baseline]]
  /\ pc' = "line91"
  /\ UNCHANGED <<cfg, i, it, h1, h2, err, nsynth, used1, used2, rec1, rec2,
                 fin, fout>>

\* line 91: i = np.sum(x[start_index:end_index]) >> 6
FirstSum ==
  /\ pc = "line91"
  /\ i' = PlainEnergy(WindowSum(cfg, x), cfg.shift)
  /\ pc' = "line100"
  /\ UNCHANGED <<cfg, x, it, h1, h2, err, nsynth, used1, used2, rec1, rec2,
                 fin, fout>>

\* line 100: h1 = np.zeros(16384), and the first loop's range(300)
InitH1 ==
  /\ pc = "line100"
  /\ h1' = ZerosTable[cfg.bins]
  /\ it' = 0
  /\ pc' = "loop1"
  /\ UNCHANGED <<cfg, x, i, h2, err, nsynth, used1, used2, rec1, rec2,
                 fin, fout>>

\* lines 101-104: one pass of the first loop
Trial1 ==
  /\ pc = "loop1"
  /\ ForHasNext(it, i, cfg.trials)
  /\ LET p  == PulseTable[cfg]
         nz == noise(x.size, cfg.amplitude)
     IN  \E n \in NoiseDraws(DOMAIN p.at, nz.values) :
           LET sig == Synthesize(cfg, x, nsynth + 1, p, n)
               e   == PlainEnergy(WindowSum(cfg, sig), cfg.shift)
           IN  /\ x' = sig
               /\ nsynth' = sig.id
               /\ i' = e
               /\ IF IndexError(cfg.bins, e)
                  THEN Halt("IndexError") /\ UNCHANGED <<it, h1, used1, rec1>>
                  ELSE /\ h1' = Record(h1, cfg.bins, e)
                       /\ used1' = used1 \cup {sig.id}
                       /\ rec1' = BagAdd(rec1, e)
                       /\ it' = it + 1
                       /\ UNCHANGED <<pc, err>>
  /\ UNCHANGED <<cfg, h2, used2, rec2, fin, fout>>

\* line 110: h2 = np.zeros(16384), once the first loop's range is used up,
\* and the second loop's range(300)
InitH2 ==
  /\ pc = "loop1"
  /\ ~ForHasNext(it, i, cfg.trials)
  /\ h2' = ZerosTable[cfg.bins]
  /\ it' = 0
  /\ pc' = "loop2"
  /\ UNCHANGED <<cfg, x, i, h1, err, nsynth, used1, used2, rec1, rec2,
                 fin, fout>>

\* lines 111-114: one pass of the second loop
Trial2 ==
  /\ pc = "loop2"
  /\ ForHasNext(it, i, cfg.trials)
  /\ LET p  == PulseTable[cfg]
         nz == noise(x.size, cfg.amplitude)
     IN  \E n \in NoiseDraws(DOMAIN p.at, nz.values) :
           LET sig == Synthesize(cfg, x, nsynth + 1, p, n)
               e   == SubtractedEnergy(WindowSum(cfg, sig), LagSum(cfg, sig),
                                       cfg.shift)
           IN  /\ x' = sig
               /\ nsynth' = sig.id
               /\ i' = e
               /\ IF IndexError(cfg.bins, e)
                  THEN Halt("IndexError") /\ UNCHANGED <<it, h2, used2, rec2>>
                  ELSE /\ h2' = Record(h2, cfg.bins, e)
                       /\ used2' = used2 \cup {sig.id}
                       /\ rec2' = BagAdd(rec2, e)
                       /\ it' = it + 1
                       /\ UNCHANGED <<pc, err>>
  /\ UNCHANGED <<cfg, h1, used1, rec1, fin, fout>>

\* line 116 on: both loops are over; the histograms are only plotted.
Finish ==
  /\ pc = "loop2"
  /\ ~ForHasNext(it, i, cfg.trials)
  /\ pc' = "done"
  /\ UNCHANGED <<cfg, x, i, it, h1, h2, err, nsynth, used1, used2, rec1, rec2,
                 fin, fout>>

RunInit(configs) ==
  /\ pc = "line50"
  /\ cfg \in configs
  /\ x = Unset
  /\ i = 0
  /\ it = 0
  /\ h1 = <<>>
  /\ h2 = <<>>
  /\ err = "none"
  /\ nsynth = 0
  /\ used1 = {}
  /\ used2 = {}
  /\ rec1 = <<>>
  /\ rec2 = <<>>
  /\ fin = <<>>
  /\ fout = <<>>

Init == RunInit(SmallConfigs \cup {LongConfig})

Next ==
  \/ GenSignal
  \/ AddNoise
  \/ AddBaseline
  \/ FirstSum
  \/ InitH1
  \/ Trial1
  \/ InitH2
  \/ Trial2
  \/ Finish

\* Runs of the script: with the parameters of sp.py, and scaled down with
\* valid and invalid parameters.
Spec == Init /\ [][Next]_vars

(***************************************************************************)
(* The functions on their own: each specification draws the arguments of   *)
(* one function from a bounded set and applies the function once.          *)
(***************************************************************************)
Idle ==
  /\ x = Unset
  /\ i = 0
  /\ it = 0
  /\ h1 = <<>>
  /\ h2 = <<>>
  /\ err = "none"
  /\ nsynth = 0
  /\ used1 = {}
  /\ used2 = {}
  /\ rec1 = <<>>
  /\ rec2 = <<>>

\* The longest array pulse is asked for.
MaxLen == 5

PulseHeights == {<<20, 1>>, <<-7, 2>>, RefConfig.height}
PulseTaus == {<<4, 1>>, <<2, 5>>, <<RefConfig.dtau, RefConfig.rtau>>, <<3, 3>>}

PulseInputs ==
  {[length |-> l, start |-> st, height |-> h, tau1 |-> t[1], tau2 |-> t[2]] :
     l \in 0 .. MaxLen, st \in 0 .. (MaxLen + 1),
     h \in PulseHeights, t \in PulseTaus}

InitPulse ==
  /\ pc = "call"
  /\ fin \in PulseInputs
  /\ fout = <<>>
  /\ cfg = SmallConfig
  /\ Idle

\* pulse(length, start, height, tau1, tau2)
PulseCall ==
  /\ pc = "call"
  /\ fout' = pulse(fin.length, fin.start, fin.height, fin.tau1, fin.tau2)
  /\ pc' = "ret"
  /\ UNCHANGED <<cfg, x, i, it, h1, h2, err, nsynth, used1, used2, rec1, rec2,
                 fin>>

SpecPulse == InitPulse /\ [][PulseCall]_vars

\* The longest noise array and the largest amplitude asked for.
MaxNoiseLen == 3
MaxAmp == 2

InitNoise ==
  /\ pc = "call"
  /\ fin \in [length : 0 .. MaxNoiseLen, amplitude : 0 .. MaxAmp]
  /\ fout = <<>>
  /\ cfg = SmallConfig
  /\ Idle

\* noise(length, amplitude) for an integer amplitude: the exception, or one
\* of the arrays randint can return.
NoiseCall ==
  /\ pc = "call"
  /\ LET nz == noise(fin.length, <<fin.amplitude, 1>>)
     IN  IF nz.err # "none"
         THEN fout' = [err |-> nz.err, at |-> <<>>]
         ELSE \E arr \in NoiseArrays(fin.length, <<fin.amplitude, 1>>) :
                fout' = [err |-> "none", at |-> arr]
  /\ pc' = "ret"
  /\ UNCHANGED <<cfg, x, i, it, h1, h2, err, nsynth, used1, used2, rec1, rec2,
                 fin>>

SpecNoise == InitNoise /\ [][NoiseCall]_vars

\* The largest window sum, in absolute value, the extractors are given.
MaxSum == 140

InitShift ==
  /\ pc = "call"
  /\ fin \in [S1 : (-MaxSum) .. MaxSum, S2 : (-MaxSum) .. MaxSum]
  /\ fout = <<>>
  /\ cfg = RefConfig
  /\ Idle

\* Both extractors on the window sums S1 (pulse window) and S2 (the window
\* `lag` samples earlier), with the script's shift.
ShiftCall ==
  /\ pc = "call"
  /\ fout' = [plain |-> PlainEnergy(fin.S1, cfg.shift),
              sub   |-> SubtractedEnergy(fin.S1, fin.S2, cfg.shift)]
  /\ pc' = "ret"
  /\ UNCHANGED <<cfg, x, i, it, h1, h2, err, nsynth, used1, used2, rec1, rec2,
                 fin>>

SpecShift == InitShift /\ [][ShiftCall]_vars

InitEnergy ==
  /\ pc = "synth"
  /\ cfg = RefConfig
  /\ fin = <<>>
  /\ fout = <<>>
  /\ Idle

\* The number of elements of the slice x[lo:hi] of an array of n elements.
SliceLen(n, lo, hi) == Cardinality(SliceIdx(n, lo, hi))

\* The lengths of the pulse window and of the baseline window.
WindowLen(c, n) == SliceLen(n, c.start_index, c.end_index)
LagLen(c, n) == SliceLen(n, c.start_index - c.lag, c.end_index - c.lag)

\* A pass of the first loop with the reference parameters: pulse + noise +
\* 8192 with any noise realization, and the plain energy of the signal.  Of
\* the 100000 samples of the signal, fin keeps the window sum S1 the
\* extractor reads; the noise adds to it any sum a slice of the window's
\* length can have.
MeasurePlain ==
  /\ pc = "synth"
  /\ LET p  == PulseTable[cfg]
         nz == noise(p.size, cfg.amplitude)
         w1 == WindowLen(cfg, p.size)
         S  == WindowSum(cfg, p) + w1 * cfg.baseline
     IN  /\ nz.err = "none"
         /\ \E n1 \in NoiseSums(w1, nz.values) :
              /\ fin' = [size |-> p.size, S1 |-> S + n1]
              /\ fout' = PlainEnergy(S + n1, cfg.shift)
  /\ nsynth' = nsynth + 1
  /\ pc' = "plain"
  /\ UNCHANGED <<cfg, x, i, it, h1, h2, err, used1, used2, rec1, rec2>>

\* A pass of the second loop with the reference parameters, and the
\* subtracted energy of the signal.  The two windows share no sample, so
\* their noise sums are independent; fin keeps the difference D of the two
\* window sums, which is all the extractor reads of them.
MeasureSub ==
  /\ pc = "synth"
  /\ LET p  == PulseTable[cfg]
         nz == noise(p.size, cfg.amplitude)
         w1 == WindowLen(cfg, p.size)
         w2 == LagLen(cfg, p.size)
         S1 == WindowSum(cfg, p) + w1 * cfg.baseline
         S2 == LagSum(cfg, p) + w2 * cfg.baseline
     IN  /\ nz.err = "none"
         /\ SliceIdx(p.size, cfg.start_index, cfg.end_index)
              \cap SliceIdx(p.size, cfg.start_index - cfg.lag,
                            cfg.end_index - cfg.lag) = {}
         /\ \E d \in NoiseDiffs(w1, w2, nz.values) :
              /\ fin' = [size |-> p.size, D |-> S1 - S2 + d]
              /\ fout' = SubtractedEnergy(S1 + d, S2, cfg.shift)
  /\ nsynth' = nsynth + 1
  /\ pc' = "sub"
  /\ UNCHANGED <<cfg, x, i, it, h1, h2, err, used1, used2, rec1, rec2>>

SpecEnergy == InitEnergy /\ [][MeasurePlain \/ MeasureSub]_vars

(***************************************************************************)
(* Properties.                                                             *)
(***************************************************************************)
\* The sum of h[lo..hi]; z is an all-zero array as long as h, and a stretch
\* of h equal to the same stretch of z adds nothing.
RECURSIVE TotalIn(_, _, _, _)
TotalIn(h, z, lo, hi) ==
  IF SubSeq(h, lo, hi) = SubSeq(z, lo, hi) THEN 0
  ELSE IF lo = hi THEN h[lo]
  ELSE TotalIn(h, z, lo, (lo + hi) \div 2)
         + TotalIn(h, z, ((lo + hi) \div 2) + 1, hi)

\* The sum of all bin counts of a histogram.
Total(h) == IF h = <<>> THEN 0 ELSE TotalIn(h, ZerosTable[Len(h)], 1, Len(h))

\* The number of elements of a multiset.
RECURSIVE BagSizeOn(_, _)
BagSizeOn(rec, S) ==
  IF S = {} THEN 0
  ELSE LET e == CHOOSE e \in S : TRUE IN rec[e] + BagSizeOn(rec, S \ {e})

BagSize(rec) == BagSizeOn(rec, DOMAIN rec)

\* The histogram of n bins that a multiset of energies determines: bin b
\* counts the energies congruent to b modulo n.
RECURSIVE BinCountsOn(_, _, _)
BinCountsOn(rec, n, S) ==
  IF S = {} THEN ZerosTable[n]
  ELSE LET e == CHOOSE e \in S : TRUE
       IN  [BinCountsOn(rec, n, S \ {e}) EXCEPT ![(e % n) + 1] = @ + rec[e]]

BinCounts(rec, n) == BinCountsOn(rec, n, DOMAIN rec)

InRange(e, n) == 0 <= e /\ e < n

\* C1: in each loop the bin counts of its histogram add up to the number of
\* trials completed so far; each loop ends after exactly `trials` passes (300
\* in sp.py) whatever the body assigns to i, with a total count of `trials`.
C1_HistogramConservation ==
  /\ pc = "loop1" => Total(h1) = it /\ nsynth = 1 + it
  /\ pc \in {"loop2", "done"} =>
       Total(h1) = cfg.trials /\ Cardinality(used1) = cfg.trials
  /\ pc = "loop2" => Total(h2) = it /\ nsynth = 1 + cfg.trials + it
  /\ pc = "done" =>
       Total(h2) = cfg.trials /\ Cardinality(used2) = cfg.trials
  /\ pc = "done" /\ cfg = LongConfig =>
       it = 300 /\ Total(h1) = 300 /\ Total(h2) = 300

\* C1's case: a run is over, all its trials done and every energy in range.
C1_Witness ==
  /\ pc = "done" /\ cfg = SmallConfig /\ it = cfg.trials
  /\ Total(h1) = cfg.trials /\ Total(h2) = cfg.trials
  /\ \A e \in DOMAIN rec1 \cup DOMAIN rec2 : InRange(e, cfg.bins)

\* C2: an energy outside [0, bins) increments no bin and does not end the
\* batch: every energy that incremented a bin was in range, and no run ends
\* in IndexError.
C2_OutOfRangeHandled ==
  /\ err # "IndexError"
  /\ \A e \in DOMAIN rec1 \cup DOMAIN rec2 : InRange(e, cfg.bins)

\* C3 as claimed: the signals recorded into the second histogram are the
\* signals recorded into the first one.
C3_SameSignalForBoth == used2 \subseteq used1

\* C3 as amended: each pass of either loop synthesizes one signal of its own
\* and records the energy of that signal; no signal is recorded into both
\* histograms.
C3_OneSignalPerPass ==
  /\ used1 \cap used2 = {}
  /\ Cardinality(used1) = BagSize(rec1)
  /\ Cardinality(used2) = BagSize(rec2)
  /\ pc \in {"loop1", "loop2", "done"} =>
       nsynth = 1 + Cardinality(used1) + Cardinality(used2)
  /\ pc = "loop1" /\ it > 0 =>
       x.id \in used1 /\ i = PlainEnergy(WindowSum(cfg, x), cfg.shift)
  /\ pc \in {"loop2", "done"} /\ it > 0 =>
       /\ x.id \in used2
       /\ i = SubtractedEnergy(WindowSum(cfg, x), LagSum(cfg, x), cfg.shift)

\* C3's case: both loops have recorded trials.
C3_Witness ==
  pc = "done" /\ Cardinality(used1) >= 2 /\ Cardinality(used2) >= 2

\* C6: with invalid static parameters no trial ever runs.
ValidConfig(c) ==
  /\ c.dtau # c.rtau
  /\ 0 <= c.ppos /\ c.ppos < c.tlen
  /\ 0 <= c.start_index /\ c.start_index < c.end_index
  /\ c.end_index < c.tlen
  /\ c.start_index - c.lag >= 0

C6_ValidationBeforeTrials ==
  ~ValidConfig(cfg) =>
    /\ pc \notin {"loop1", "loop2", "done"}
    /\ used1 = {} /\ used2 = {}
    /\ nsynth <= 1

\* C8: a histogram is determined by the multiset of the energies recorded
\* into it, whatever the order of the trials that produced them.
C8_OrderInvariance ==
  /\ h1 # <<>> => h1 = BinCounts(rec1, cfg.bins)
  /\ h2 # <<>> => h2 = BinCounts(rec2, cfg.bins)

\* C8's case: different energies were recorded, in some order.
C8_Witness ==
  pc = "done" /\ Cardinality(DOMAIN rec1) >= 2 /\ Cardinality(DOMAIN rec2) >= 2

\* No bin of g in lo..hi is below the same bin of h; equal stretches of the
\* two arrays need no look at their bins.
RECURSIVE NeverLessIn(_, _, _, _)
NeverLessIn(h, g, lo, hi) ==
  IF SubSeq(h, lo, hi) = SubSeq(g, lo, hi) THEN TRUE
  ELSE IF lo = hi THEN g[lo] >= h[lo]
  ELSE /\ NeverLessIn(h, g, lo, (lo + hi) \div 2)
       /\ NeverLessIn(h, g, ((lo + hi) \div 2) + 1, hi)

NeverLess(h, g) == Len(g) = Len(h) /\ NeverLessIn(h, g, 1, Len(h))

\* What a pass of a loop may do to its histogram h (g afterwards) with the
\* energy e, and to the other histogram o (q afterwards).
RecordsOne(h, g, e, o, q, n) ==
  /\ q = o
  /\ Len(g) = n
  /\ IF InRange(e, n) THEN g = [h EXCEPT ![e + 1] = h[e + 1] + 1]
     ELSE NeverLess(h, g)

\* C9: a pass that records an energy e in [0, bins) adds one to bin e and
\* changes no other bin and not the other histogram; an existing histogram
\* keeps its `bins` bins (16384 in sp.py) and no bin of it ever decreases.
C9_RecordFrame ==
  [][ /\ pc = "loop1" /\ it' = it + 1 =>
           RecordsOne(h1, h1', i', h2, h2', cfg.bins)
      /\ pc = "loop2" /\ it' = it + 1 =>
           RecordsOne(h2, h2', i', h1, h1', cfg.bins)
      /\ h1 # <<>> => Len(h1') = Len(h1) /\ NeverLess(h1, h1')
      /\ h2 # <<>> => Len(h2') = Len(h2) /\ NeverLess(h2, h2')
      /\ cfg = LongConfig /\ h1' # <<>> => Len(h1') = 16384
      /\ cfg = LongConfig /\ h2' # <<>> => Len(h2') = 16384
    ]_vars

\* C9's case: the second loop has recorded in-range energies into two bins.
C9_Witness ==
  /\ pc = "loop2" /\ it >= 2
  /\ InRange(i, cfg.bins) /\ h2[i + 1] >= 1
  /\ Cardinality(DOMAIN rec2) >= 2
  /\ Total(h1) = cfg.trials

\* C4: the plain energy is floor(S1 / 64) and the subtracted energy is
\* floor((S1 - S2) / 64), also for a negative difference.
C4_ShiftQuantization ==
  pc = "ret" =>
    /\ 64 * fout.plain <= fin.S1 /\ fin.S1 < 64 * fout.plain + 64
    /\ 64 * fout.sub <= fin.S1 - fin.S2
    /\ fin.S1 - fin.S2 < 64 * fout.sub + 64

\* C4's case: S = 130 gives 2 and a difference of -1 gives -1.
C4_Witness ==
  pc = "ret" /\ fin.S1 = 130 /\ fin.S2 = 131 /\ fout.plain = 2 /\ fout.sub = -1

\* C5: noise(length, A) returns `length` integers x with -A <= x < A for
\* every integer A >= 0, all zero for A = 0, and never fails.
C5_NoiseBounds ==
  pc = "ret" =>
    /\ fout.err = "none"
    /\ DOMAIN fout.at = 0 .. (fin.length - 1)
    /\ \A k \in DOMAIN fout.at :
         IF fin.amplitude = 0 THEN fout.at[k] = 0
         ELSE -fin.amplitude <= fout.at[k] /\ fout.at[k] < fin.amplitude

\* C7: for 0 <= start < length (and tau1 # tau2) pulse returns `length`
\* integers, zero up to and including index `start`, and from there on the
\* waveform of start = 0 moved right by `start`.
C7_PulseDelay ==
  pc = "ret" /\ fin.start < fin.length /\ fin.tau1 # fin.tau2 =>
    /\ fout.err = "none"
    /\ fout.size = fin.length
    /\ DOMAIN fout.at = 0 .. (fin.length - 1)
    /\ \A k \in 0 .. fin.start : fout.at[k] = 0
    /\ \A k \in fin.start .. (fin.length - 1) :
         fout.at[k] = pulse(fin.length, 0, fin.height, fin.tau1, fin.tau2)
                        .at[k - fin.start]

\* C7's case: a delayed pulse with samples after its start.
C7_Witness ==
  /\ pc = "ret" /\ fin.start = 2 /\ fin.length = 5 /\ fin.tau1 # fin.tau2
  /\ fout.at[3] # 0

\* C10: with the parameters of sp.py the plain energy of a pass of the first
\* loop and the subtracted energy of a pass of the second loop lie in
\* [0, 16384), whatever values in [-16, 16) the noise takes: the histogram
\* index neither wraps nor falls past the last bin.
C10_ReferenceInRange ==
  /\ pc = "plain" =>
       /\ fin.size = 100000
       /\ InRange(fout, 16384) /\ ~IndexError(cfg.bins, fout)
  /\ pc = "sub" =>
       /\ fin.size = 100000
       /\ InRange(fout, 16384) /\ ~IndexError(cfg.bins, fout)

\* C10's case: the lowest noise on every sample of the pulse window and the
\* highest on every sample of the baseline window.
C10_Witness ==
  pc = "sub" /\ fin.D = 138011 - 64 * 16 - 64 * 15 /\ fout = 2125
====
